---- MODULE Spec2Model ----
(***************************************************************************)
(* kikuchipy documentation slice: the Read the Docs build configuration    *)
(* (readthedocs.yaml) and three tutorial notebooks (virtual backscatter    *)
(* electron imaging, Hough indexing, visualizing patterns).                *)
(*                                                                         *)
(* The configuration file is read line by line into a flat mapping from    *)
(* key paths to scalar values.  A notebook is run in a fresh kernel, its   *)
(* code cells once, top to bottom; a cell is a sequence of statements that *)
(* read names, bind names and act on the objects the names refer to.       *)
(***************************************************************************)
EXTENDS Integers, Sequences, FiniteSets, TLC

VARIABLES
    task,      \* "idle", "config", or the notebook being run
    ln,        \* next line of readthedocs.yaml to read
    stack,     \* open block mappings/sequences: <<[indent, key], ...>>
    cfg,       \* configuration read so far: set of [path, val]
    pc,        \* next code cell of the notebook to run
    err,       \* exception that ended the run, "none" while it is running
    env,       \* kernel namespace: name -> object id
    heap,      \* objects: id -> current state
    born,      \* objects: id -> state when created
    fs,        \* file system: [dirs, files]
    widgets,   \* ROI objects attached to an interactive plot
    log,       \* statements executed to completion: <<cell, statement>>
    raised,    \* exceptions raised: <<[cell, stmt, type], ...>>
    calls      \* plotting calls made, with what they were given

vars == <<task, ln, stack, cfg, pc, err, env, heap, born, fs, widgets, log, raised, calls>>

\* Positions an interactive ROI can be dragged to: left, top in 0..MaxShift.
MaxShift == 1

\* Image stacks whose pixels are followed through rescaling: StackImages
\* images of ImagePixels pixels with intensities in 0..MaxIntensity.
StackImages == 2
ImagePixels == 3
MaxIntensity == 2

(***************************************************************************)
(* readthedocs.yaml                                                        *)
(***************************************************************************)
Comment(n) == [n |-> n, kind |-> "comment", indent |-> 0, key |-> "", val |-> ""]
Blank(n) == [n |-> n, kind |-> "blank", indent |-> 0, key |-> "", val |-> ""]
\* "key:" opening a nested block
Map(n, indent, key) == [n |-> n, kind |-> "map", indent |-> indent, key |-> key, val |-> ""]
\* "key: value"
KV(n, indent, key, val) == [n |-> n, kind |-> "kv", indent |-> indent, key |-> key, val |-> val]
\* "- value"
Item(n, indent, val) == [n |-> n, kind |-> "item", indent |-> indent, key |-> "", val |-> val]
\* "- key: value", the first key of a mapping that is a sequence item
ItemKV(n, indent, key, val) == [n |-> n, kind |-> "itemkv", indent |-> indent, key |-> key, val |-> val]

LinesVersion ==
    << Comment(1), Comment(2), Comment(3), Blank(4),
       Comment(5),
       KV(6, 0, "version", "2"),
       Blank(7) >>

\* the configuration key written at top level instead of under sphinx
LinesSphinxFlat ==
    << Comment(8),
       Map(9, 0, "sphinx"),
       KV(10, 0, "configuration", "doc/conf.py"),
       Blank(11) >>

LinesSphinx ==
    << Comment(8),
       Map(9, 0, "sphinx"),
       KV(10, 2, "configuration", "doc/conf.py"),
       Blank(11) >>

\* the Python version written without quotes: YAML reads 3.10 as the number 3.1
LinesBuildToolsUnquoted ==
    << Comment(12),
       Map(13, 0, "build"),
       KV(14, 2, "os", "ubuntu-22.04"),
       Map(15, 2, "tools"),
       KV(16, 4, "python", "3.1"),
       KV(17, 4, "nodejs", "19") >>

LinesBuildTools ==
    << Comment(12),
       Map(13, 0, "build"),
       KV(14, 2, "os", "ubuntu-22.04"),
       Map(15, 2, "tools"),
       KV(16, 4, "python", "3.10"),
       KV(17, 4, "nodejs", "19") >>

\* the OpenGL development package left out of the list
LinesAptPackagesNoGl ==
    << Comment(18), Comment(19), Comment(20),
       Map(21, 2, "apt_packages"),
       Item(22, 4, "imagemagick"),
       Item(24, 4, "xvfb"),
       Blank(25) >>

LinesAptPackages ==
    << Comment(18), Comment(19), Comment(20),
       Map(21, 2, "apt_packages"),
       Item(22, 4, "imagemagick"),
       Item(23, 4, "libgl1-mesa-dev"),
       Item(24, 4, "xvfb"),
       Blank(25) >>

LinesFormats ==
    << Comment(26), Comment(27), Comment(28),
       Map(29, 0, "formats"),
       Item(30, 2, "htmlzip"),
       Comment(31),              \* "#  - pdf"
       Blank(32) >>

\* the viz extra left out of the install step
LinesPythonNoViz ==
    << Comment(33),
       Map(34, 0, "python"),
       Map(35, 2, "install"),
       ItemKV(36, 4, "method", "pip"),
       KV(37, 6, "path", "."),
       Map(38, 6, "extra_requirements"),
       Item(39, 8, "doc") >>

LinesPython ==
    << Comment(33),
       Map(34, 0, "python"),
       Map(35, 2, "install"),
       ItemKV(36, 4, "method", "pip"),
       KV(37, 6, "path", "."),
       Map(38, 6, "extra_requirements"),
       Item(39, 8, "doc"),
       Item(40, 8, "viz") >>

ConfigLines ==
    LinesVersion \o LinesSphinx \o LinesBuildTools \o LinesAptPackages
        \o LinesFormats \o LinesPython

\* Tag of the i-th item of a block sequence, used as a path component.
ItemTag(i) == <<"#1", "#2", "#3", "#4", "#5", "#6">>[i]

PathOf(stk) == [i \in 1..Len(stk) |-> stk[i].key]

IsPrefix(p, q) == Len(p) <= Len(q) /\ SubSeq(q, 1, Len(p)) = p

\* A line at indentation n closes every block opened at indentation >= n.
Pop(stk, n) == SelectSeq(stk, LAMBDA e : e.indent < n)

\* Number of items the sequence at path p has so far.
ItemCount(c, p) ==
    Cardinality({e.path[Len(p) + 1] : e \in {x \in c : Len(x.path) > Len(p) /\ IsPrefix(p, x.path)}})

\* The effect of one line on the open blocks and on the configuration.
ParseLine(stk, c, l) ==
    LET open == Pop(stk, l.indent)
        here == PathOf(open)
        tag  == ItemTag(ItemCount(c, here) + 1)
    IN  CASE l.kind \in {"comment", "blank"} ->
                [stack |-> stk, cfg |-> c]
          [] l.kind = "map" ->
                [stack |-> Append(open, [indent |-> l.indent, key |-> l.key]), cfg |-> c]
          [] l.kind = "kv" ->
                [stack |-> open,
                 cfg |-> c \cup {[path |-> Append(here, l.key), val |-> l.val]}]
          [] l.kind = "item" ->
                [stack |-> open,
                 cfg |-> c \cup {[path |-> Append(here, tag), val |-> l.val]}]
          [] l.kind = "itemkv" ->
                [stack |-> Append(open, [indent |-> l.indent, key |-> tag]),
                 cfg |-> c \cup {[path |-> here \o <<tag, l.key>>, val |-> l.val]}]

\* Scalars stored at a path, and the items of the sequence at a path.
Lookup(p) == {e.val : e \in {x \in cfg : x.path = p}}
Items(p) == {e.val : e \in {x \in cfg : Len(x.path) = Len(p) + 1 /\ IsPrefix(p, x.path)}}
\* Everything declared below a path.
Below(p) == {e \in cfg : IsPrefix(p, e.path)}

ConfigLoaded == task = "config" /\ ln > Len(ConfigLines)

(***************************************************************************)
(* Notebook kernel: statements, objects and exceptions                     *)
(***************************************************************************)
Notebooks == {"vbse", "hough", "vis"}

\* Names Python binds without any import or assignment.
Builtins == {"print", "zip", "range"}

\* A statement: what it reads, what it binds, the operation on the objects,
\* and whether it runs third-party library code (which may raise).
Stmt(op, reads, binds, ext, on, arg) ==
    [op |-> op, reads |-> reads, binds |-> binds, ext |-> ext, on |-> on, arg |-> arg]

Magic == Stmt("magic", {}, <<>>, FALSE, "", <<>>)
ImportStd(names) == Stmt("import", {}, names, FALSE, "", <<>>)
Import(names) == Stmt("import", {}, names, TRUE, "", <<>>)
\* literal, display of a value, print, arithmetic on plain values
Pure(reads, binds) == Stmt("eval", reads, binds, FALSE, "", <<>>)
\* a library call with no effect on the objects modelled
Call(reads, binds) == Stmt("eval", reads, binds, TRUE, "", <<>>)
\* a library call op on object `on` with argument arg
Op(op, reads, binds, on, arg) == Stmt(op, reads, binds, TRUE, on, arg)

\* obj.attr = value: no call into the library that can fail is modelled
Assign(op, reads, on, arg) == Stmt(op, reads, <<>>, FALSE, on, arg)

EmptyEnv == [n \in {} |-> 0]

Machine == [env |-> env, heap |-> heap, born |-> born, fs |-> fs,
            widgets |-> widgets, err |-> err, log |-> log, raised |-> raised,
            calls |-> calls]

Obj(M, name) == M.heap[M.env[name]]

\* name = <new object>
NewObj(M, name, obj) ==
    [M EXCEPT !.heap = Append(@, obj),
              !.born = Append(@, obj),
              !.env = (name :> (Len(M.heap) + 1)) @@ @]

RECURSIVE BindModules(_, _)
BindModules(M, names) ==
    IF names = <<>> THEN M
    ELSE BindModules(NewObj(M, Head(names),
                            [kind |-> "module", name |-> Head(names), setting |-> "default"]),
                     Tail(names))

RECURSIVE BindValues(_, _)
BindValues(M, names) ==
    IF names = <<>> THEN M
    ELSE BindValues(NewObj(M, Head(names), [kind |-> "value"]), Tail(names))

\* the exception caught and dropped, as by "try: ... except: pass"
RaiseSwallowed(M, c, i, e) ==
    [M EXCEPT !.raised = Append(@, [cell |-> c, stmt |-> i, type |-> e])]

\* An exception raised by statement i of cell c: no statement of these
\* notebooks is inside a try block, so it ends the run.
Raise(M, c, i, e) ==
    [M EXCEPT !.err = e,
              !.raised = Append(@, [cell |-> c, stmt |-> i, type |-> e])]

FilesIn(f, d) == {x \in f.files : x[1] = d}

\* plt.imsave(dir / name, ...)
ImSave(M, c, i, d, name) ==
    IF d \notin M.fs.dirs THEN Raise(M, c, i, "FileNotFoundError")
    ELSE [M EXCEPT !.fs.files = @ \cup {<<d, name>>}]

\* os.remove(dir / name)
OsRemove(M, c, i, d, name) ==
    IF <<d, name>> \notin M.fs.files THEN Raise(M, c, i, "FileNotFoundError")
    ELSE [M EXCEPT !.fs.files = @ \ {<<d, name>>}]

\* os.rmdir(dir)
OsRmdir(M, c, i, d) ==
    IF d \notin M.fs.dirs THEN Raise(M, c, i, "FileNotFoundError")
    ELSE IF FilesIn(M.fs, d) # {} THEN Raise(M, c, i, "OSError")
    ELSE [M EXCEPT !.fs.dirs = @ \ {d}]

\* Path(tempfile.mkdtemp()): a new, empty directory
TempDirName == "tmp"
MkDTemp(M, name) ==
    NewObj([M EXCEPT !.fs.dirs = @ \cup {TempDirName}], name,
           [kind |-> "Path", path |-> TempDirName])

\* percentiles=(0.5, 99.5), in tenths of a percent
Percentiles == <<5, 995>>

\* Pixel data, where modelled: an image is [den, px], pixel k having the
\* intensity px[k] / den; a stack is a sequence of images.
RECURSIVE InsertSorted(_, _)
InsertSorted(x, srt) ==
    IF srt = <<>> THEN <<x>>
    ELSE IF x <= Head(srt) THEN <<x>> \o srt
    ELSE <<Head(srt)>> \o InsertSorted(x, Tail(srt))

RECURSIVE Sorted(_)
Sorted(px) == IF px = <<>> THEN <<>> ELSE InsertSorted(Head(px), Sorted(Tail(px)))

\* The q-th percentile (q in tenths of a percent) of sorted values, linearly
\* interpolated between neighbours, in thousandths of the values' unit.
PercentileScaled(srt, q) ==
    LET n == Len(srt)
        pos == q * (n - 1)
        i == pos \div 1000
        f == pos % 1000
    IN  IF i + 1 >= n THEN 1000 * srt[n]
        ELSE 1000 * srt[i + 1] + f * (srt[i + 2] - srt[i + 1])

Clip(x, lo, hi) == IF x < lo THEN lo ELSE IF x > hi THEN hi ELSE x

\* One image rescaled: intensities outside the image's own percentiles are
\* clipped to them, then the percentile range is mapped linearly to out.
RescaleImage(im, out, pct) ==
    LET srt == Sorted(im.px)
        lo == PercentileScaled(srt, pct[1])
        hi == PercentileScaled(srt, pct[2])
    IN  [den |-> hi - lo,
         px |-> [k \in DOMAIN im.px |->
                    out[1] * (hi - lo)
                        + (out[2] - out[1]) * (Clip(1000 * im.px[k], lo, hi) - lo)]]

\* stack.rescale_intensity(out_range, percentiles): in place, image by image
Rescaled(obj, arg) ==
    IF "data" \in DOMAIN obj
    THEN [obj EXCEPT !.rescaled = TRUE,
                     !.data = [j \in DOMAIN @ |->
                                  RescaleImage(@[j], arg.out_range, arg.percentiles)]]
    ELSE [obj EXCEPT !.rescaled = TRUE]

\* a plain assignment instead of a copy: both names refer to one object
DeepCopyAlias(M, name, src) ==
    [M EXCEPT !.env = (name :> M.env[src]) @@ @]

\* x.deepcopy(): a new object with the same state
DeepCopy(M, name, src) == NewObj(M, name, Obj(M, src))

(***************************************************************************)
(* What each library call does to the objects                             *)
(***************************************************************************)
\* The map of the nickel data set: 55 rows of 75 patterns.
NavShape == <<55, 75>>

\* s = kp.data.nickel_ebsd_large(): raw patterns, no markers
NewEBSD ==
    [kind |-> "EBSD", static |-> FALSE, dynamic |-> FALSE, markers |-> FALSE,
     nav |-> NavShape]

\* kp.imaging.VirtualBSEImager(s) keeps a reference to the signal
DefaultGridShape == <<5, 5>>
NewImager(sig) == [kind |-> "VirtualBSEImager", sig |-> sig, grid_shape |-> DefaultGridShape]

\* s.get_virtual_bse_intensity(roi): integrates the patterns as they are now
\* over the rectangle the ROI has now
RoiImage(sig, roi) ==
    [kind |-> "VirtualBSEImage", static |-> sig.static, dynamic |-> sig.dynamic,
     rect |-> roi.rect, rescaled |-> FALSE]

\* imager.get_rgb_image(r, g, b)
RgbImage(sig, im, tiles) ==
    [kind |-> "VirtualBSEImage", static |-> sig.static, dynamic |-> sig.dynamic,
     grid |-> im.grid_shape, tiles |-> tiles, rescaled |-> FALSE]

\* imager.get_images_from_grid(): one image per grid tile
GridImages(sig, im) ==
    [kind |-> "VirtualBSEImage", static |-> sig.static, dynamic |-> sig.dynamic,
     grid |-> im.grid_shape, rescaled |-> FALSE]

\* t[::-1] of a pair
Reversed(t) == <<t[2], t[1]>>

\* stack.axes_manager.navigation_shape: HyperSpy's order, (columns, rows)
NavigationShape(obj) == Reversed(obj.grid)

\* np.ndindex(shape): every index of a 2D shape, the last axis fastest
NdIndex(shape) ==
    [k \in 1..(shape[1] * shape[2]) |-> <<(k - 1) \div shape[2], (k - 1) % shape[2]>>]

\* whether a 2D index is within a shape
InShape(ix, shape) ==
    /\ 0 <= ix[1] /\ ix[1] < shape[1]
    /\ 0 <= ix[2] /\ ix[2] < shape[2]

\* the image looked up with the subplot's index as it is
ShowImageSameIndex(M, st, c, i, idx) ==
    LET hs_idx == idx
        M1 == NewObj(NewObj(M, st.binds[1], [kind |-> "index", at |-> idx]),
                     st.binds[2], [kind |-> "index", at |-> hs_idx])
    IN  IF ~InShape(idx, Obj(M, st.arg).shape)
           \/ ~InShape(hs_idx, NavigationShape(Obj(M, st.on)))
        THEN Raise(M1, c, i, "IndexError")
        ELSE [M1 EXCEPT !.calls = Append(@, [fn |-> "imshow", cell |-> c,
                                             id |-> M.env[st.on],
                                             subplot |-> idx, image |-> hs_idx])]

\* The loop body: hs_idx = idx[::-1]; ax[idx].imshow(stack.inav[hs_idx].data)
ShowImage(M, st, c, i, idx) ==
    LET hs_idx == Reversed(idx)
        M1 == NewObj(NewObj(M, st.binds[1], [kind |-> "index", at |-> idx]),
                     st.binds[2], [kind |-> "index", at |-> hs_idx])
    IN  IF ~InShape(idx, Obj(M, st.arg).shape)
           \/ ~InShape(hs_idx, NavigationShape(Obj(M, st.on)))
        THEN Raise(M1, c, i, "IndexError")
        ELSE [M1 EXCEPT !.calls = Append(@, [fn |-> "imshow", cell |-> c,
                                             id |-> M.env[st.on],
                                             subplot |-> idx, image |-> hs_idx])]

\* for idx in np.ndindex(...): the body run for each index until one raises
RECURSIVE PlotLoop(_, _, _, _, _)
PlotLoop(M, st, c, i, todo) ==
    IF todo = <<>> \/ M.err # "none" THEN M
    ELSE PlotLoop(ShowImage(M, st, c, i, Head(todo)), st, c, i, Tail(todo))

\* Position t (from 0) of g positions spread evenly over n map points.
GridPos(n, g, t) == (n * (t + 1)) \div (g + 1)

\* s.get_image_quality()
IQMap(sig) == [kind |-> "IQMap", static |-> sig.static, dynamic |-> sig.dynamic]

\* s.extract_grid(shape): a new signal holding a grid of the patterns as they are
GridSignal(sig, shape) ==
    [kind |-> "EBSD", static |-> sig.static, dynamic |-> sig.dynamic,
     markers |-> FALSE, grid |-> shape, nav |-> shape,
     at |-> [k \in 1..(shape[1] * shape[2]) |->
                <<GridPos(sig.nav[1], shape[1], (k - 1) \div shape[2]),
                  GridPos(sig.nav[2], shape[2], (k - 1) % shape[2])>>]]

\* The indices extract_grid returns: an array of shape (2,) + grid shape,
\* [0] the map row and [1] the map column of each grid pattern; arrays are
\* [shape, flat], flat holding the elements with the last axis fastest.
GridIndices(sig, shape) ==
    LET n == shape[1] * shape[2]
    IN  [kind |-> "indices", grid |-> shape,
         shape |-> <<2, shape[1], shape[2]>>,
         flat |-> [k \in 1..(2 * n) |->
                     IF k <= n
                     THEN GridPos(sig.nav[1], shape[1], (k - 1) \div shape[2])
                     ELSE GridPos(sig.nav[2], shape[2], (k - n - 1) % shape[2])]]

\* a.reshape(rows, -1): the elements in the same order
ReshapeRows(a, rows) == [shape |-> <<rows, Len(a.flat) \div rows>>, flat |-> a.flat]

\* a.T of a 2D array
Transposed(a) ==
    [shape |-> <<a.shape[2], a.shape[1]>>,
     flat |-> [k \in 1..Len(a.flat) |->
                 LET i == (k - 1) \div a.shape[1]
                     j == (k - 1) % a.shape[1]
                 IN  a.flat[j * a.shape[2] + i + 1]]]

\* row k (from 1) of a 2D array
Row(a, k) == [j \in 1..a.shape[2] |-> a.flat[(k - 1) * a.shape[2] + j]]

\* the indices taken two by two as they lie in memory
PatternPositionsFlatPairs(idx) == [shape |-> <<Len(idx.flat) \div 2, 2>>, flat |-> idx.flat]

\* rc=idx.reshape(2, -1).T
PatternPositions(idx) == Transposed(ReshapeRows(idx, 2))

\* det.get_indexer(phase_list)
Indexer(M, det, phases) ==
    [kind |-> "EBSDIndexer", pc |-> Obj(M, det).pc, det |-> M.env[det],
     phase_list |-> M.env[phases]]

\* s.hough_indexing(phase_list, indexer)
CrystalMap(M, st) ==
    [kind |-> "CrystalMap", phase_list |-> M.env[st.arg.phase_list],
     indexer |-> M.env[st.arg.indexer], static |-> Obj(M, st.on).static,
     dynamic |-> Obj(M, st.on).dynamic]

\* The Jupyter backend PyVista has: the one set by set_jupyter_backend, or
\* its default when the module was not set up by this run.
JupyterBackend(M) ==
    IF "pyvista" \in DOMAIN M.env THEN Obj(M, "pyvista").setting ELSE "default"

Effect(M, st, c, i) ==
    LET b == st.binds
        me == M.env[st.on]
    IN  CASE st.op = "magic" -> M
          [] st.op = "import" -> BindModules(M, b)
          [] st.op = "eval" -> BindValues(M, b)
          [] st.op = "setting" -> [M EXCEPT !.heap[me].setting = st.arg]
          [] st.op = "load_ebsd" -> NewObj(M, b[1], NewEBSD)
          [] st.op = "remove_static" -> [M EXCEPT !.heap[me].static = TRUE]
          [] st.op = "remove_dynamic" -> [M EXCEPT !.heap[me].dynamic = TRUE]
          [] st.op = "add_marker" -> [M EXCEPT !.heap[me].markers = TRUE]
          [] st.op = "roi" -> NewObj(M, b[1], [kind |-> "ROI", rect |-> st.arg])
          [] st.op = "plot_interactive" ->
                [M EXCEPT !.widgets = @ \cup {M.env[st.arg]}]
          [] st.op = "get_vbse" ->
                NewObj(M, b[1], RoiImage(M.heap[me], Obj(M, st.arg)))
          [] st.op = "mkdtemp" -> MkDTemp(M, b[1])
          [] st.op = "imsave" -> ImSave(M, c, i, M.heap[me].path, st.arg)
          [] st.op = "os_remove" -> OsRemove(M, c, i, M.heap[me].path, st.arg)
          [] st.op = "os_rmdir" -> OsRmdir(M, c, i, M.heap[me].path)
          [] st.op = "imager" -> NewObj(M, b[1], NewImager(M.env[st.arg]))
          [] st.op = "set_grid" -> [M EXCEPT !.heap[me].grid_shape = st.arg]
          [] st.op = "get_rgb" ->
                NewObj(M, b[1], RgbImage(M.heap[M.heap[me].sig], M.heap[me], st.arg))
          [] st.op = "plot_grid" ->
                NewObj(M, b[1], [kind |-> "figure", grid |-> M.heap[me].grid_shape,
                                 tiles |-> st.arg])
          [] st.op = "get_images" ->
                NewObj(M, b[1], GridImages(M.heap[M.heap[me].sig], M.heap[me]))
          [] st.op = "subplots" ->
                NewObj(NewObj(M, b[1], [kind |-> "value"]),
                       b[2], [kind |-> "axes", shape |-> st.arg])
          [] st.op = "plot_loop" ->
                PlotLoop(M, st, c, i, NdIndex(Reversed(NavigationShape(M.heap[me]))))
          [] st.op = "deepcopy" -> DeepCopy(M, b[1], st.on)
          [] st.op = "rescale" -> [M EXCEPT !.heap[me] = Rescaled(@, st.arg)]
          [] st.op = "roi_from_grid" ->
                NewObj(M, b[1], [kind |-> "GridROI", grid |-> M.heap[me].grid_shape,
                                 tile |-> st.arg])
          [] st.op = "iq" -> NewObj(M, b[1], IQMap(M.heap[me]))
          [] st.op = "detector" -> NewObj(M, b[1], [kind |-> "EBSDDetector", pc |-> "default", npc |-> 1])
          [] st.op = "extract_grid" ->
                NewObj(NewObj(M, b[1], GridSignal(M.heap[me], st.arg)),
                       b[2], GridIndices(M.heap[me], st.arg))
          [] st.op = "plot_positions" ->
                [M EXCEPT !.calls = Append(@, [fn |-> "plot_positions",
                                               rc |-> PatternPositions(M.heap[me])])]
          [] st.op = "phase_list" -> NewObj(M, b[1], [kind |-> "PhaseList", names |-> st.arg])
          [] st.op = "get_indexer" -> NewObj(M, b[1], Indexer(M, st.on, st.arg))
          [] st.op = "optimize_pc" ->
                \* one PC per pattern of the signal
                NewObj(M, b[1], [kind |-> "EBSDDetector", pc |-> "grid",
                                 npc |-> M.heap[me].nav[1] * M.heap[me].nav[2]])
          [] st.op = "pc_average" -> [M EXCEPT !.heap[me].pc = "average", !.heap[me].npc = 1]
          [] st.op = "hough_indexing" -> NewObj(M, b[1], CrystalMap(M, st))
          [] st.op = "color_key" ->
                NewObj(M, b[1], [kind |-> "IPFColorKeyTSL",
                                 direction |-> Obj(M, st.arg).direction[1]])
          [] st.op = "set_direction" ->
                \* ckey.direction = directions[i], i counted from 0
                [M EXCEPT !.heap[me].direction = Obj(M, "directions").direction[st.arg + 1]]
          [] st.op = "orientation2color" ->
                NewObj(M, b[1], [kind |-> "rgb", direction |-> M.heap[me].direction])
          [] st.op = "vector" -> NewObj(M, b[1], [kind |-> "Vector3d", direction |-> st.arg])
          [] st.op = "rgb_navigator" ->
                NewObj(M, b[1], [kind |-> "navigator", direction |-> Obj(M, st.arg).direction])
          [] st.op = "plot_spherical" ->
                \* drawn with the Jupyter backend PyVista has at the call
                [M EXCEPT !.calls = Append(@, [fn |-> "plot_spherical", id |-> me,
                                               obj |-> M.heap[me],
                                               backend |-> JupyterBackend(M)])]
          [] st.op = "master_pattern" ->
                NewObj(M, b[1], [kind |-> "EBSDMasterPattern",
                                 projection |-> st.arg.projection,
                                 hemisphere |-> st.arg.hemisphere])

\* The exception a failing library call raises.
FailureOf(st) == IF st.op = "import" THEN "ImportError" ELSE "LibraryError"

\* One statement: a read of an unbound name raises NameError before anything
\* else happens; a failing library call raises and has no effect.
StepStmt(M, st, c, i, fails) ==
    IF ~ (st.reads \subseteq (DOMAIN M.env \cup Builtins)) THEN Raise(M, c, i, "NameError")
    ELSE IF fails THEN Raise(M, c, i, FailureOf(st))
    ELSE LET R == Effect(M, st, c, i)
         IN  IF R.err = "none" THEN [R EXCEPT !.log = Append(@, <<c, i>>)] ELSE R

\* The statements of cell c from statement i on, in order, until one raises;
\* k is the statement whose library call fails in this run (0: none does).
RECURSIVE Exec(_, _, _, _, _)
Exec(M, stmts, c, i, k) ==
    IF i > Len(stmts) \/ M.err # "none" THEN M
    ELSE Exec(StepStmt(M, stmts[i], c, i, i = k), stmts, c, i + 1, k)

(***************************************************************************)
(* doc/tutorials/virtual_backscatter_electron_imaging.ipynb                *)
(***************************************************************************)
VbseCell01 ==
    << Magic,
       ImportStd(<<"Path">>),
       ImportStd(<<"tempfile">>),
       Import(<<"plt">>),
       Import(<<"np">>),
       Import(<<"hs">>),
       Import(<<"kp">>),
       Assign("setting", {"plt"}, "plt", "font.size=12"),
       Op("load_ebsd", {"kp"}, <<"s">>, "", <<>>),
       Pure({"s"}, <<>>) >>

VbseCell02 ==
    << Op("roi", {"hs"}, <<"roi">>, "", <<0, 0, 10, 10>>),
       Op("plot_interactive", {"s", "roi"}, <<>>, "s", "roi") >>

\* the image taken over a ROI made anew instead of the plotted one
VbseCell03FreshRoi ==
    << Op("roi", {"hs"}, <<"roi">>, "", <<0, 0, 10, 10>>),
       Op("get_vbse", {"s", "roi"}, <<"vbse">>, "s", "roi"),
       Pure({"vbse"}, <<>>) >>

VbseCell03 ==
    << Op("get_vbse", {"s", "roi"}, <<"vbse">>, "s", "roi"),
       Pure({"vbse"}, <<>>) >>

\* the image saved under another file name than the cleanup cell removes
VbseCell04OtherName ==
    << Stmt("mkdtemp", {"Path", "tempfile"}, <<"temp_dir">>, FALSE, "", <<>>),
       Op("imsave", {"plt", "temp_dir", "vbse"}, <<>>, "temp_dir", "vbse.png") >>

VbseCell04 ==
    << Stmt("mkdtemp", {"Path", "tempfile"}, <<"temp_dir">>, FALSE, "", <<>>),
       Op("imsave", {"plt", "temp_dir", "vbse"}, <<>>, "temp_dir", "vbse1.png") >>

VbseCell05 ==
    << Op("imager", {"kp", "s"}, <<"vbse_imager">>, "", "s"),
       Pure({"vbse_imager"}, <<>>) >>

VbseCell06 ==
    << Pure({"vbse_imager"}, <<>>) >>

Red == {<<7, 1>>, <<8, 1>>, <<8, 2>>, <<9, 1>>, <<9, 2>>}
Green == {<<8, 4>>, <<8, 5>>, <<9, 4>>, <<9, 5>>}
Blue == {<<7, 8>>, <<8, 7>>, <<8, 8>>, <<9, 7>>, <<9, 8>>}

VbseCell07 ==
    << Assign("set_grid", {"vbse_imager"}, "vbse_imager", <<10, 10>>),
       Pure({}, <<"red">>),
       Pure({}, <<"green">>),
       Pure({}, <<"blue">>),
       Op("plot_grid", {"vbse_imager", "red", "green", "blue"}, <<"p">>, "vbse_imager",
          [r |-> Red, g |-> Green, b |-> Blue]),
       Pure({"p"}, <<>>) >>

VbseCell08 ==
    << Op("get_rgb", {"vbse_imager", "red", "green", "blue"}, <<"vbse_rgb_img">>,
          "vbse_imager", [r |-> Red, g |-> Green, b |-> Blue]),
       Pure({"vbse_rgb_img"}, <<>>) >>

VbseCell09 ==
    << Call({"vbse_rgb_img"}, <<>>) >>

VbseCell10 ==
    << Assign("set_grid", {"vbse_imager"}, "vbse_imager", <<3, 3>>),
       Op("get_images", {"vbse_imager"}, <<"vbse_imgs">>, "vbse_imager", <<>>),
       Pure({"vbse_imgs"}, <<>>) >>

VbseCell11 ==
    << Call({"vbse_imgs"}, <<>>) >>

\* The for loop over np.ndindex(...) is one statement: it binds idx and
\* hs_idx and shows each image of the stack in its subplot.
VbseCell12 ==
    << Op("subplots", {"plt"}, <<"fig", "ax">>, "", <<3, 3>>),
       Op("plot_loop", {"np", "vbse_imgs", "ax"}, <<"idx", "hs_idx">>, "vbse_imgs", "ax"),
       Call({"fig"}, <<>>) >>

VbseCell13 ==
    << Pure({"vbse_imgs"}, <<>>) >>

\* rescaling to the range (0, 2)
VbseCell14WideRange ==
    << Op("deepcopy", {"vbse_imgs"}, <<"vbse_imgs2">>, "vbse_imgs", <<>>),
       Op("rescale", {"vbse_imgs2"}, <<>>, "vbse_imgs2",
          [out_range |-> <<0, 2>>, percentiles |-> Percentiles]) >>

VbseCell14 ==
    << Op("deepcopy", {"vbse_imgs"}, <<"vbse_imgs2">>, "vbse_imgs", <<>>),
       Op("rescale", {"vbse_imgs2"}, <<>>, "vbse_imgs2",
          [out_range |-> <<0, 1>>, percentiles |-> Percentiles]) >>

VbseCell15 ==
    << Pure({"print", "vbse_imgs"}, <<>>),
       Pure({"print", "vbse_imgs2"}, <<>>) >>

VbseCell16 ==
    << Op("subplots", {"plt"}, <<"fig", "ax">>, "", <<3, 3>>),
       Op("plot_loop", {"np", "vbse_imgs2", "ax"}, <<"idx", "hs_idx">>, "vbse_imgs2", "ax"),
       Call({"fig"}, <<>>) >>

VbseCell17 ==
    << Op("roi_from_grid", {"vbse_imager"}, <<"roi2">>, "vbse_imager", <<3, 3>>),
       Pure({"roi2"}, <<>>) >>

VbseCell18 ==
    << ImportStd(<<"os">>),
       Stmt("os_remove", {"os", "temp_dir"}, <<>>, FALSE, "temp_dir", "vbse1.png"),
       Stmt("os_rmdir", {"os", "temp_dir"}, <<>>, FALSE, "temp_dir", <<>>) >>

VbseCells ==
    << VbseCell01, VbseCell02, VbseCell03, VbseCell04, VbseCell05, VbseCell06,
       VbseCell07, VbseCell08, VbseCell09, VbseCell10, VbseCell11, VbseCell12,
       VbseCell13, VbseCell14, VbseCell15, VbseCell16, VbseCell17, VbseCell18 >>

(***************************************************************************)
(* doc/tutorials/hough_indexing.ipynb                                      *)
(***************************************************************************)
HoughCell01 ==
    << Magic,
       Import(<<"plt">>),
       Import(<<"np">>),
       Import(<<"Atom", "Lattice", "Structure">>),
       Import(<<"ReciprocalLatticeVector">>),
       Import(<<"kp">>),
       Import(<<"plot">>),
       Import(<<"Phase", "PhaseList">>),
       Import(<<"Vector3d">>),
       Op("setting", {"plt"}, <<>>, "plt", "font.size=15") >>

HoughCell02 ==
    << Op("load_ebsd", {"kp"}, <<"s">>, "", <<>>),
       Pure({"s"}, <<>>) >>

HoughCell03 ==
    << Op("imager", {"kp", "s"}, <<"vbse_imager">>, "", "s"),
       Pure({"print", "vbse_imager"}, <<>>) >>

HoughCell04 ==
    << Op("get_rgb", {"vbse_imager"}, <<"maps_vbse_rgb">>, "vbse_imager",
          [r |-> {<<2, 1>>}, g |-> {<<2, 2>>}, b |-> {<<2, 3>>}]),
       Pure({"maps_vbse_rgb"}, <<>>) >>

HoughCell05 ==
    << Call({"maps_vbse_rgb"}, <<>>) >>

\* only the static background removed before the image quality map
HoughCell06StaticOnly ==
    << Op("remove_static", {"s"}, <<>>, "s", <<>>) >>

HoughCell06 ==
    << Op("remove_static", {"s"}, <<>>, "s", <<>>),
       Op("remove_dynamic", {"s"}, <<>>, "s", <<>>) >>

HoughCell07 ==
    << Op("iq", {"s"}, <<"maps_iq">>, "s", <<>>) >>

HoughCell08 ==
    << Call({"s", "maps_iq"}, <<>>) >>

HoughCell09 ==
    << Pure({"s"}, <<"sig_shape">>),
       Op("detector", {"kp", "sig_shape"}, <<"det">>, "", <<>>),
       Pure({"det"}, <<>>) >>

\* the indices bound to another name than the one the next cell reads
HoughCell10OtherName ==
    << Pure({}, <<"grid_shape">>),
       Op("extract_grid", {"s", "grid_shape"}, <<"s_grid", "ind">>, "s", <<5, 4>>),
       Pure({"s_grid"}, <<>>) >>

HoughCell10 ==
    << Pure({}, <<"grid_shape">>),
       Op("extract_grid", {"s", "grid_shape"}, <<"s_grid", "idx">>, "s", <<5, 4>>),
       Pure({"s_grid"}, <<>>) >>

HoughCell11 ==
    << Pure({"s"}, <<"nav_shape">>),
       Op("plot_positions", {"kp", "idx", "nav_shape", "maps_iq"}, <<>>, "idx", <<>>) >>

HoughCell12 ==
    << Op("phase_list", {"PhaseList", "Phase", "Structure", "Lattice", "Atom"},
          <<"phase_list">>, "", <<"ni">>),
       Pure({"phase_list"}, <<>>) >>

HoughCell13 ==
    << Op("get_indexer", {"det", "phase_list"}, <<"indexer">>, "det", "phase_list"),
       Pure({"print", "indexer"}, <<>>),
       Pure({"print", "indexer"}, <<>>),
       Pure({"print", "indexer"}, <<>>),
       Pure({"print", "indexer"}, <<>>),
       Pure({"print", "indexer"}, <<>>) >>

HoughCell14 ==
    << Op("optimize_pc", {"s_grid", "indexer"}, <<"det">>, "s_grid", "indexer"),
       Pure({"print", "det"}, <<>>),
       Pure({"print", "det"}, <<>>) >>

HoughCell15 ==
    << Call({"det"}, <<>>) >>

HoughCell16 ==
    << Assign("pc_average", {"det"}, "det", <<>>) >>

HoughCell17 ==
    << Call({"det", "s_grid"}, <<>>) >>

\* no new indexer after the PC was set
HoughCell18NoNewIndexer ==
    << Pure({"indexer"}, <<>>) >>

HoughCell18 ==
    << Op("get_indexer", {"det", "phase_list"}, <<"indexer">>, "det", "phase_list"),
       Pure({"indexer"}, <<>>) >>

\* another phase list made for the indexing call
HoughCell19OtherPhases ==
    << Op("phase_list", {"PhaseList", "Phase", "Structure", "Lattice", "Atom"},
          <<"phase_list">>, "", <<"ni">>),
       Op("hough_indexing", {"s", "phase_list", "indexer"}, <<"xmap">>, "s",
          [phase_list |-> "phase_list", indexer |-> "indexer"]) >>

HoughCell19 ==
    << Op("hough_indexing", {"s", "phase_list", "indexer"}, <<"xmap">>, "s",
          [phase_list |-> "phase_list", indexer |-> "indexer"]) >>

HoughCell20 ==
    << Pure({"xmap"}, <<>>) >>

\* for a, to_plot in zip(ax.ravel(), ["pq", "cm", "fit", "nmatch"]): ...
MetricLoopBody(metric) ==
    << Pure({}, <<"a", "to_plot">>),
       Call({"a", "xmap", "to_plot"}, <<"im">>),
       Call({"fig", "im", "a", "to_plot"}, <<>>),
       Call({"a"}, <<>>) >>

HoughCell21 ==
    << Pure({"xmap"}, <<"aspect_ratio">>),
       Pure({"aspect_ratio"}, <<"figsize">>),
       Call({"plt", "figsize"}, <<"fig", "ax">>),
       Pure({"zip", "ax"}, <<>>) >>
    \o MetricLoopBody("pq") \o MetricLoopBody("cm")
    \o MetricLoopBody("fit") \o MetricLoopBody("nmatch")
    \o << Call({"fig"}, <<>>) >>

HoughCell22 ==
    << Op("vector", {"Vector3d"}, <<"v_ipf">>, "", <<"X">>),
       Pure({"xmap"}, <<"sym">>),
       Op("color_key", {"plot", "sym", "v_ipf"}, <<"ckey">>, "", "v_ipf"),
       Pure({"ckey"}, <<>>) >>

HoughCell23 ==
    << Op("orientation2color", {"ckey", "xmap"}, <<"rgb_x">>, "ckey", <<>>),
       Call({"xmap", "rgb_x"}, <<"fig">>),
       Call({"fig", "sym"}, <<"ax_ckey">>),
       Call({"ax_ckey"}, <<>>),
       Call({"ax_ckey"}, <<>>) >>

\* for i, title in zip(range(n), ["X", "Y", "Z"]): ...
IpfLoopBody(i) ==
    << Pure({}, <<"i", "title">>),
       Assign("set_direction", {"ckey", "directions", "i"}, "ckey", i),
       Op("orientation2color", {"ckey", "xmap"}, <<"rgb">>, "ckey", <<>>),
       Call({"ax", "i", "rgb", "xmap"}, <<>>),
       Call({"ax", "i", "title"}, <<>>),
       Call({"ax", "i"}, <<>>) >>

HoughCell24 ==
    << Op("vector", {"Vector3d"}, <<"directions">>, "", <<"X", "Y", "Z">>),
       Pure({"directions"}, <<"n">>),
       Pure({"n", "aspect_ratio"}, <<"figsize">>),
       Call({"plt", "n", "figsize"}, <<"fig", "ax">>),
       Pure({"zip", "range", "n"}, <<>>) >>
    \o IpfLoopBody(0) \o IpfLoopBody(1) \o IpfLoopBody(2)
    \o << Call({"fig"}, <<>>) >>

HoughCell25 ==
    << Call({"ReciprocalLatticeVector", "xmap"}, <<"rlv">>),
       Call({"rlv"}, <<"rlv">>),
       Call({"kp", "rlv"}, <<"simulator">>),
       Call({"simulator", "det", "xmap"}, <<"sim">>) >>

HoughCell26 ==
    << Call({"sim"}, <<"markers">>),
       Op("add_marker", {"s", "markers"}, <<>>, "s", <<>>) >>

\* the navigator made from the colours computed last in the loop
HoughCell27FromLoopRgb ==
    << Op("rgb_navigator", {"kp", "rgb", "xmap"}, <<"maps_nav_rgb">>, "", "rgb") >>

HoughCell27 ==
    << Op("rgb_navigator", {"kp", "rgb_x", "xmap"}, <<"maps_nav_rgb">>, "", "rgb_x") >>

HoughCell28 ==
    << Call({"s", "maps_nav_rgb"}, <<>>) >>

HoughCells ==
    << HoughCell01, HoughCell02, HoughCell03, HoughCell04, HoughCell05, HoughCell06,
       HoughCell07, HoughCell08, HoughCell09, HoughCell10, HoughCell11, HoughCell12,
       HoughCell13, HoughCell14, HoughCell15, HoughCell16, HoughCell17, HoughCell18,
       HoughCell19, HoughCell20, HoughCell21, HoughCell22, HoughCell23, HoughCell24,
       HoughCell25, HoughCell26, HoughCell27, HoughCell28 >>

(***************************************************************************)
(* The visualizing patterns notebook (second notebook of                   *)
(* doc/tutorials/hough_indexing.ipynb, from line 701)                      *)
(***************************************************************************)
\* the first cell without the call that sets the backend
VisCell01NoBackend ==
    << Magic,
       Import(<<"plt">>),
       Import(<<"np">>),
       Import(<<"pyvista">>),
       Import(<<"ske">>),
       Import(<<"skt">>),
       Import(<<"hs">>),
       Import(<<"kp">>),
       Import(<<"io", "plot", "quaternion", "vector">>) >>

VisCell01 ==
    << Magic,
       Import(<<"plt">>),
       Import(<<"np">>),
       Import(<<"pyvista">>),
       Import(<<"ske">>),
       Import(<<"skt">>),
       Import(<<"hs">>),
       Import(<<"kp">>),
       Import(<<"io", "plot", "quaternion", "vector">>),
       Op("setting", {"pyvista"}, <<>>, "pyvista", "panel") >>

VisCell02 ==
    << Op("load_ebsd", {"kp"}, <<"s">>, "", <<>>),
       Pure({"s"}, <<>>) >>

VisCell03 ==
    << Call({"s"}, <<>>) >>

VisCell04 ==
    << Op("imager", {"kp", "s"}, <<"vbse_imager">>, "", "s"),
       Pure({"print", "vbse_imager"}, <<>>),
       Pure({"print", "vbse_imager"}, <<>>) >>

VisCell05 ==
    << Op("get_rgb", {"vbse_imager"}, <<"vbse_rgb">>, "vbse_imager",
          [r |-> {<<3, 1>>}, g |-> {<<3, 3>>}, b |-> {<<3, 2>>}]),
       Pure({"vbse_rgb"}, <<>>) >>

VisCell06 ==
    << Call({"s", "vbse_rgb"}, <<>>) >>

VisCell07 ==
    << Op("remove_static", {"s"}, <<>>, "s", <<>>),
       Op("remove_dynamic", {"s"}, <<>>, "s", <<>>) >>

VisCell08 ==
    << Op("iq", {"s"}, <<"iq">>, "s", <<>>),
       Call({"hs", "iq"}, <<"s_iq">>),
       Call({"s", "s_iq"}, <<>>) >>

VisCell09 ==
    << Call({"plt"}, <<"rgb_z">>),
       Pure({"rgb_z"}, <<"rgb_z">>),
       Call({"kp", "rgb_z"}, <<"s_rgb_z">>),
       Call({"s", "s_rgb_z"}, <<>>) >>

\* the master pattern loaded with the default (Lambert) projection
VisCell10Lambert ==
    << Op("master_pattern", {"kp"}, <<"mp_stereo">>, "",
          [projection |-> "lambert", hemisphere |-> "both"]),
       Pure({"print", "mp_stereo"}, <<>>) >>

VisCell10 ==
    << Op("master_pattern", {"kp"}, <<"mp_stereo">>, "",
          [projection |-> "stereographic", hemisphere |-> "both"]),
       Pure({"print", "mp_stereo"}, <<>>) >>

VisCell11 ==
    << Call({"mp_stereo"}, <<>>) >>

VisCell12 ==
    << Op("plot_spherical", {"mp_stereo"}, <<>>, "mp_stereo", "points") >>

VisCells ==
    << VisCell01, VisCell02, VisCell03, VisCell04, VisCell05, VisCell06,
       VisCell07, VisCell08, VisCell09, VisCell10, VisCell11, VisCell12 >>

Cells(nb) ==
    CASE nb = "vbse" -> VbseCells
      [] nb = "hough" -> HoughCells
      [] nb = "vis" -> VisCells

(***************************************************************************)
(* Actions                                                                 *)
(***************************************************************************)
Init ==
    /\ task = "idle"
    /\ ln = 1
    /\ stack = <<>>
    /\ cfg = {}
    /\ pc = 1
    /\ err = "none"
    /\ env = EmptyEnv
    /\ heap = <<>>
    /\ born = <<>>
    /\ fs = [dirs |-> {}, files |-> {}]
    /\ widgets = {}
    /\ log = <<>>
    /\ raised = <<>>
    /\ calls = <<>>

kernelVars == <<pc, err, env, heap, born, fs, widgets, log, raised, calls>>

\* The documentation build reads the configuration.
StartConfig ==
    /\ task = "idle"
    /\ task' = "config"
    /\ UNCHANGED <<ln, stack, cfg>>
    /\ UNCHANGED kernelVars

\* A notebook is opened in a fresh kernel.
StartNotebook(nb) ==
    /\ task = "idle"
    /\ task' = nb
    /\ UNCHANGED <<ln, stack, cfg>>
    /\ UNCHANGED kernelVars

\* One line of readthedocs.yaml is read.
ReadLine ==
    /\ task = "config"
    /\ ln <= Len(ConfigLines)
    /\ LET r == ParseLine(stack, cfg, ConfigLines[ln])
       IN  /\ stack' = r.stack
           /\ cfg' = r.cfg
    /\ ln' = ln + 1
    /\ UNCHANGED task
    /\ UNCHANGED kernelVars

\* The next code cell is run: its statements in order until one raises.
RunCell ==
    /\ task \in Notebooks
    /\ err = "none"
    /\ pc <= Len(Cells(task))
    /\ LET stmts == Cells(task)[pc]
       IN  \E k \in 0..Len(stmts) :
              /\ k > 0 => stmts[k].ext
              /\ LET R == Exec(Machine, stmts, pc, 1, k)
                 IN  /\ env' = R.env
                     /\ heap' = R.heap
                     /\ born' = R.born
                     /\ fs' = R.fs
                     /\ widgets' = R.widgets
                     /\ err' = R.err
                     /\ log' = R.log
                     /\ raised' = R.raised
                     /\ calls' = R.calls
                     /\ pc' = IF R.err = "none" THEN pc + 1 ELSE pc
    /\ UNCHANGED <<task, ln, stack, cfg>>

\* The user drags an ROI of an interactive plot to another position.
MoveRoi ==
    /\ task \in Notebooks
    /\ \E id \in widgets, left \in 0..MaxShift, top \in 0..MaxShift :
          LET r == heap[id].rect
              w == r[3] - r[1]
              h == r[4] - r[2]
          IN  /\ <<left, top>> # <<r[1], r[2]>>
              /\ heap' = [heap EXCEPT ![id].rect = <<left, top, left + w, top + h>>]
    /\ UNCHANGED <<task, ln, stack, cfg, pc, err, env, born, fs, widgets, log, raised, calls>>

Next ==
    \/ StartConfig
    \/ \E nb \in Notebooks : StartNotebook(nb)
    \/ ReadLine
    \/ RunCell
    \/ MoveRoi

Spec == Init /\ [][Next]_vars

(***************************************************************************)
(* rescale_intensity followed on pixel data: the kernel holds an image     *)
(* stack vbse_imgs with some intensities, and cell 14 of the VBSE notebook *)
(* (deep copy, then rescaling of the copy) is run on it.                   *)
(***************************************************************************)
\* Images as the nickel data set gives them: not of one constant intensity.
RawImages ==
    {[den |-> 1, px |-> p] : p \in {q \in [1..ImagePixels -> 0..MaxIntensity] :
                                       \E a, b \in 1..ImagePixels : q[a] # q[b]}}

InitRescale ==
    /\ task = "rescale"
    /\ ln = 1
    /\ stack = <<>>
    /\ cfg = {}
    /\ pc = 14
    /\ err = "none"
    /\ env = ("vbse_imgs" :> 1)
    /\ \E d \in [1..StackImages -> RawImages] :
          heap = << [kind |-> "VirtualBSEImage", static |-> FALSE, dynamic |-> FALSE,
                     grid |-> <<1, StackImages>>, rescaled |-> FALSE, data |-> d] >>
    /\ born = heap
    /\ fs = [dirs |-> {}, files |-> {}]
    /\ widgets = {}
    /\ log = <<>>
    /\ raised = <<>>
    /\ calls = <<>>

RescaleStack ==
    /\ task = "rescale"
    /\ err = "none"
    /\ pc = 14
    /\ LET R == Exec(Machine, VbseCell14, pc, 1, 0)
       IN  /\ env' = R.env
           /\ heap' = R.heap
           /\ born' = R.born
           /\ fs' = R.fs
           /\ widgets' = R.widgets
           /\ err' = R.err
           /\ log' = R.log
           /\ raised' = R.raised
           /\ calls' = R.calls
           /\ pc' = IF R.err = "none" THEN pc + 1 ELSE pc
    /\ UNCHANGED <<task, ln, stack, cfg>>

NextRescale == RescaleStack

SpecRescale == InitRescale /\ [][NextRescale]_vars

(***************************************************************************)
(* Properties                                                              *)
(***************************************************************************)
\* The run of notebook nb went through its last cell without an exception.
Finished(nb) == task = nb /\ pc = Len(Cells(nb)) + 1 /\ err = "none"

\* Statement a = <<cell, stmt>> comes before statement b in the notebook.
Before(a, b) == a[1] < b[1] \/ (a[1] = b[1] /\ a[2] < b[2])

\* C1: once the configuration is read, it declares schema version 2 and the
\* Sphinx configuration file doc/conf.py under the sphinx key.
C1_VersionAndSphinxPath ==
    ConfigLoaded =>
        /\ Lookup(<<"version">>) = {"2"}
        /\ Lookup(<<"sphinx", "configuration">>) = {"doc/conf.py"}

C1_Witness ==
    ConfigLoaded /\ Lookup(<<"sphinx", "configuration">>) # {}

\* C2: the python section declares exactly one install step: method pip,
\* path ".", with the extra requirements doc and viz and nothing else.
C2_PipInstallWithDocAndViz ==
    ConfigLoaded =>
        Below(<<"python">>) =
            { [path |-> <<"python", "install", "#1", "method">>, val |-> "pip"],
              [path |-> <<"python", "install", "#1", "path">>, val |-> "."],
              [path |-> <<"python", "install", "#1", "extra_requirements", "#1">>, val |-> "doc"],
              [path |-> <<"python", "install", "#1", "extra_requirements", "#2">>, val |-> "viz"] }

C2_Witness ==
    ConfigLoaded /\ Items(<<"python", "install", "#1", "extra_requirements">>) # {}

\* C3: the apt packages of the build are imagemagick, libgl1-mesa-dev and xvfb.
C3_AptPackagesListed ==
    ConfigLoaded =>
        Items(<<"build", "apt_packages">>) = {"imagemagick", "libgl1-mesa-dev", "xvfb"}

C3_Witness ==
    ConfigLoaded /\ "xvfb" \in Items(<<"build", "apt_packages">>)

\* C4: the formats list requests every output format: HTML (htmlzip), PDF
\* and ePub.
C4_AllFormatsRequested ==
    ConfigLoaded => {"htmlzip", "pdf", "epub"} \subseteq Items(<<"formats">>)

\* C5: the build pins os ubuntu-22.04, Python 3.10 and Node.js 19.
C5_OsAndToolVersions ==
    ConfigLoaded =>
        /\ Lookup(<<"build", "os">>) = {"ubuntu-22.04"}
        /\ Lookup(<<"build", "tools", "python">>) = {"3.10"}
        /\ Lookup(<<"build", "tools", "nodejs">>) = {"19"}

C5_Witness ==
    ConfigLoaded /\ Lookup(<<"build", "tools", "nodejs">>) # {}

\* C6: in a run of a notebook, cells once and top to bottom, the statements
\* execute in notebook order and none raises NameError: every name a
\* statement reads was bound by an earlier statement.
C6_NoUndefinedName ==
    /\ err # "NameError"
    /\ \A j \in 1..Len(raised) : raised[j].type # "NameError"
    /\ \A j \in 1..Len(log) : \A m \in 1..Len(log) : j < m => Before(log[j], log[m])

C6_Witness ==
    Finished("hough") /\ Len(log) > Len(HoughCells)

\* Objects the notebook code changes after creating them, by the name they
\* are bound to when changed.
MutatedNames == {"s", "det", "vbse_imager", "ckey", "vbse_imgs2"}

NamesOf(id) == {n \in DOMAIN env : env[n] = id}

\* C7 as stated: every EBSD signal, detector, virtual BSE imager, color key
\* and virtual image is in the state it was created in.
C7_NoObjectMutated ==
    \A id \in DOMAIN heap :
        heap[id].kind \in {"EBSD", "EBSDDetector", "VirtualBSEImager",
                           "IPFColorKeyTSL", "VirtualBSEImage"}
            => heap[id] = born[id]

\* C7 amended: only the objects bound to s, det, vbse_imager, ckey and
\* vbse_imgs2 (and to no other name), module settings, and an ROI dragged
\* by hand differ from the state they were created in.
C7_OnlyNamedObjectsMutated ==
    \A id \in DOMAIN heap :
        heap[id] # born[id] =>
            \/ heap[id].kind = "module"
            \/ id \in widgets
            \/ NamesOf(id) # {} /\ NamesOf(id) \subseteq MutatedNames

C7_Witness ==
    /\ Finished("vbse")
    /\ heap[env["vbse_imgs2"]] # born[env["vbse_imgs2"]]
    /\ heap[env["vbse_imgs"]] = born[env["vbse_imgs"]]

\* C8: an exception raised in a cell ends the run at that cell with that
\* exception: no statement after the raising one has executed, and no later
\* step executes a statement, runs a cell or clears the exception.
C8_FailureEndsRun ==
    [][raised' # <<>> =>
          /\ Len(raised') = 1
          /\ err' = raised'[1].type
          /\ pc' = raised'[1].cell
          /\ \A j \in 1..Len(log') :
                Before(log'[j], <<raised'[1].cell, raised'[1].stmt>>)
          /\ raised # <<>> => log' = log /\ raised' = raised /\ env' = env]_vars

\* import pyvista fails in the first cell of the visualizing patterns notebook
C8_Witness ==
    /\ task = "vis"
    /\ raised = << [cell |-> 1, stmt |-> 4, type |-> "ImportError"] >>

\* C9: in the Hough indexing and visualizing patterns notebooks every
\* virtual BSE image is computed from raw patterns and every image quality
\* map from patterns with static and dynamic background removed.
C9_VbseOnRawIqOnProcessed ==
    task \in {"hough", "vis"} =>
        \A id \in DOMAIN heap :
            /\ heap[id].kind = "VirtualBSEImage" =>
                  ~ heap[id].static /\ ~ heap[id].dynamic
            /\ heap[id].kind = "IQMap" =>
                  heap[id].static /\ heap[id].dynamic

C9_Witness ==
    /\ task = "hough"
    /\ "maps_iq" \in DOMAIN env
    /\ "maps_vbse_rgb" \in DOMAIN env

C12_SphericalPlotOfStereographic ==
    \A j \in 1..Len(calls) :
        calls[j].fn = "plot_spherical" =>
            /\ calls[j].obj.kind = "EBSDMasterPattern"
            /\ calls[j].obj.projection = "stereographic"
            /\ calls[j].obj.hemisphere = "both"
            /\ calls[j].obj = born[calls[j].id]

C12_Witness ==
    /\ Finished("vis")
    /\ \E j \in 1..Len(calls) : calls[j].fn = "plot_spherical"

\* C11: after rescale_intensity(out_range=(0, 1), percentiles=(0.5, 99.5))
\* every intensity of every image is in [0, 1]; an intensity at or below the
\* image's own 0.5 % percentile is 0, one at or above its 99.5 % percentile
\* is 1.
C11_RescaledIntoUnitRange ==
    \A id \in DOMAIN heap :
        (heap[id].kind = "VirtualBSEImage" /\ heap[id].rescaled /\ "data" \in DOMAIN heap[id]) =>
            \A j \in DOMAIN heap[id].data :
                LET im == heap[id].data[j]
                    raw == born[id].data[j].px
                    lo == PercentileScaled(Sorted(raw), Percentiles[1])
                    hi == PercentileScaled(Sorted(raw), Percentiles[2])
                IN  /\ im.den > 0
                    /\ \A k \in DOMAIN im.px :
                          /\ 0 <= im.px[k] /\ im.px[k] <= im.den
                          /\ 1000 * raw[k] <= lo => im.px[k] = 0
                          /\ 1000 * raw[k] >= hi => im.px[k] = im.den

\* a rescaled stack with an excluded (clipped) intensity and one strictly
\* inside the range
C11_Witness ==
    /\ task = "rescale"
    /\ "vbse_imgs2" \in DOMAIN env
    /\ heap[env["vbse_imgs2"]].rescaled
    /\ \E j \in DOMAIN heap[env["vbse_imgs2"]].data :
          LET im == heap[env["vbse_imgs2"]].data[j]
              raw == born[env["vbse_imgs2"]].data[j].px
          IN  /\ \E k \in DOMAIN im.px :
                    1000 * raw[k] < PercentileScaled(Sorted(raw), Percentiles[1])
              /\ \E k \in DOMAIN im.px : 0 < im.px[k] /\ im.px[k] < im.den

\* C17: rescaling is applied to a deep copy: the copy is another object than
\* vbse_imgs, and vbse_imgs is as it was created, pixel data included.
C17_OriginalUnchanged ==
    \A id \in DOMAIN heap :
        (heap[id].kind = "VirtualBSEImage" /\ heap[id].rescaled) =>
            /\ "vbse_imgs2" \in DOMAIN env /\ env["vbse_imgs2"] = id
            /\ "vbse_imgs" \in DOMAIN env /\ env["vbse_imgs"] # id
            /\ heap[env["vbse_imgs"]] = born[env["vbse_imgs"]]
            /\ ~heap[env["vbse_imgs"]].rescaled

C17_Witness ==
    /\ task = "vbse"
    /\ "vbse_imgs2" \in DOMAIN env
    /\ heap[env["vbse_imgs2"]].rescaled
    /\ heap[env["vbse_imgs2"]] # heap[env["vbse_imgs"]]

\* C13: the indexer given to hough_indexing was obtained from the detector
\* returned by PC optimization after its PC was set to the average PC; it
\* is not the indexer obtained from the initial detector.
C13_IndexedWithNewIndexer ==
    \A id \in DOMAIN heap :
        heap[id].kind = "CrystalMap" =>
            LET ix == heap[heap[id].indexer]
            IN  /\ ix.kind = "EBSDIndexer"
                /\ ix.pc = "average"
                /\ born[ix.det].pc = "grid"
                /\ heap[ix.det].pc = "average"
                /\ \E first \in 1..(heap[id].indexer - 1) :
                      /\ heap[first].kind = "EBSDIndexer"
                      /\ heap[first].pc = "default"

C13_Witness ==
    /\ task = "hough"
    /\ "xmap" \in DOMAIN env
    /\ heap[env["xmap"]].kind = "CrystalMap"
    /\ heap[env["xmap"]].indexer = env["indexer"]

\* C14: the phase list given to hough_indexing is the object that was given
\* to get_indexer when the indexer of the same call was made.
C14_SamePhaseList ==
    \A id \in DOMAIN heap :
        heap[id].kind = "CrystalMap" =>
            /\ heap[heap[id].phase_list].kind = "PhaseList"
            /\ heap[id].phase_list = heap[heap[id].indexer].phase_list

C14_Witness ==
    /\ task = "hough"
    /\ \E id \in DOMAIN heap :
          /\ heap[id].kind = "CrystalMap"
          /\ heap[id].phase_list = env["phase_list"]

\* C16: the RGB navigator is the IPF-X map: rgb_x was computed while the
\* colour key's direction was X, and stays as computed while the loop sets
\* the colour key's direction to X, Y and Z, where it ends.
C16_NavigatorIsIpfX ==
    /\ "rgb_x" \in DOMAIN env =>
          /\ heap[env["rgb_x"]].direction = "X"
          /\ heap[env["rgb_x"]] = born[env["rgb_x"]]
    /\ \A id \in DOMAIN heap :
          heap[id].kind = "navigator" =>
              /\ heap[id].direction = "X"
              /\ heap[env["ckey"]].direction = "Z"

C16_Witness ==
    /\ Finished("hough")
    /\ heap[env["maps_nav_rgb"]].kind = "navigator"
    /\ heap[env["rgb"]].direction = "Z"

\* C15: in the VBSE notebook every grid tile (row, column) given to
\* plot_grid, get_rgb_image or roi_from_grid lies inside the grid shape the
\* imager has at the call: 0 <= row < rows and 0 <= column < columns.
C15_TilesInsideGrid ==
    task = "vbse" =>
        \A id \in DOMAIN heap :
            LET o == heap[id]
                given == IF o.kind = "GridROI" THEN {o.tile}
                         ELSE IF "tiles" \in DOMAIN o
                              THEN o.tiles.r \cup o.tiles.g \cup o.tiles.b
                              ELSE {}
            IN  \A t \in given :
                    /\ 0 <= t[1] /\ t[1] < o.grid[1]
                    /\ 0 <= t[2] /\ t[2] < o.grid[2]

\* C20: the ROI given to get_virtual_bse_intensity is the object that was
\* given to plot_virtual_bse_intensity; the image is integrated over the
\* rectangle that ROI has when the call is made, which is (0, 0, 10, 10) if
\* the ROI is as it was created.
C20_ImageOverRoiAtCall ==
    [][ ("vbse" \notin DOMAIN env /\ "vbse" \in DOMAIN env') =>
            /\ env'["roi"] = env["roi"]
            /\ env'["roi"] \in widgets'
            /\ heap'[env'["vbse"]].rect = heap[env["roi"]].rect
            /\ heap[env["roi"]] = born[env["roi"]] =>
                  heap'[env'["vbse"]].rect = <<0, 0, 10, 10>> ]_vars

\* an image taken after the ROI was moved
C20_Witness ==
    /\ task = "vbse"
    /\ "vbse" \in DOMAIN env
    /\ heap[env["vbse"]].rect # <<0, 0, 10, 10>>
    /\ heap[env["vbse"]].rect[3] - heap[env["vbse"]].rect[1] = 10

\* C18: with the grid (3, 3), each loop over
\* np.ndindex(navigation_shape[::-1]) visits every (row, column) of the grid
\* exactly once, never indexes outside the 3 x 3 array of subplots, and shows
\* in subplot (row, column) the image at HyperSpy index (column, row).
C18_EachTileInItsSubplot ==
    /\ \A j \in 1..Len(raised) : raised[j].type # "IndexError"
    /\ \A c \in {12, 16} :
          (task = "vbse" /\ pc > c) =>
              LET shown == {j \in 1..Len(calls) : calls[j].fn = "imshow" /\ calls[j].cell = c}
              IN  /\ \A tile \in (0..2) \X (0..2) :
                        Cardinality({j \in shown : calls[j].subplot = tile}) = 1
                  /\ \A j \in shown :
                        /\ InShape(calls[j].subplot, <<3, 3>>)
                        /\ InShape(calls[j].subplot, heap[calls[j].id].grid)
                        /\ calls[j].image = <<calls[j].subplot[2], calls[j].subplot[1]>>

C18_Witness ==
    /\ task = "vbse"
    /\ pc > 16
    /\ \E j \in 1..Len(calls) :
          /\ calls[j].fn = "imshow"
          /\ calls[j].cell = 16
          /\ calls[j].subplot = <<0, 2>>
          /\ calls[j].image = <<2, 0>>

\* C19: extract_grid with the grid shape (5, 4) yields 20 patterns;
\* idx.reshape(2, -1).T has the shape (20, 2), its k-th row is the (row,
\* column) map position of the k-th extracted pattern, each position occurs
\* once; PC optimization on the grid gives one PC per pattern.
C19_OnePositionPerPattern ==
    /\ \A j \in 1..Len(calls) :
          calls[j].fn = "plot_positions" =>
              LET rc == calls[j].rc
                  sg == heap[env["s_grid"]]
              IN  /\ Len(sg.at) = 20
                  /\ rc.shape = <<20, 2>>
                  /\ \A k \in 1..20 : Row(rc, k) = sg.at[k]
                  /\ \A k, l \in 1..20 : Row(rc, k) = Row(rc, l) => k = l
                  /\ \A k \in 1..20 : InShape(Row(rc, k), NavShape)
    /\ \A id \in DOMAIN heap :
          (heap[id].kind = "EBSDDetector" /\ born[id].pc = "grid") => born[id].npc = 20

C19_Witness ==
    /\ task = "hough"
    /\ pc > 14
    /\ \E j \in 1..Len(calls) : calls[j].fn = "plot_positions"
    /\ born[env["det"]].pc = "grid"

\* C21: in the visualization notebook the PyVista Jupyter backend is set
\* in the first code cell: from the end of that cell on it is "panel", it
\* is not changed afterwards, and plot_spherical draws with it.
C21_BackendSetBeforeSphericalPlot ==
    task = "vis" =>
        LET sets == {a \in 1..Len(log) : Cells("vis")[log[a][1]][log[a][2]].op = "setting"}
        IN  /\ pc > 1 => heap[env["pyvista"]].setting = "panel"
            /\ \A a \in sets : log[a][1] = 1
            /\ \A j \in 1..Len(calls) :
                  calls[j].fn = "plot_spherical" =>
                      /\ calls[j].backend = "panel"
                      /\ \E a \in sets, b \in 1..Len(log) :
                            a < b /\ log[b] = <<12, 1>>

C21_Witness ==
    /\ Finished("vis")
    /\ \E j \in 1..Len(calls) :
          /\ calls[j].fn = "plot_spherical"
          /\ calls[j].backend = "panel"

====
